---------------------------- MODULE Spec2Model ----------------------------
(* A model of nanoyunhu: the WssClient session (src/src/utils/wss.ts), the   *)
(* bounded-retry request loops of the login flow (src/src/nanoYunHu/login.ts,*)
(* tokenTest, src/src/utils/http.ts), the command-keyed message decoder and  *)
(* the device id and platform of the configuration (src/src/utils/device.ts).*)
EXTENDS Integers, Sequences, FiniteSets, TLC

(***************************************************************************)
(* Bounds of the model.                                                    *)
(***************************************************************************)
\* sockets one session may create before the model stops creating more
MaxSockets == 3
\* heartbeat ticks without an ack the model follows on one connection
MaxMissed == 3

(***************************************************************************)
(* Program constants.                                                      *)
(***************************************************************************)
maxMissedHeartbeatCount == 2

VARIABLES
    \* ---- WssClient fields (wss.ts 226-246) ----
    destroyed,              \* this.destroyed
    ws,                     \* this.ws: 0 is null, else an index into sockets
    heartbeatTimer,         \* this.heartbeatTimer !== null
    reconnectTimer,         \* this.reconnectTimer !== null
    reconnectTimeouts,      \* setTimeout callbacks of scheduleReconnect due
    missedHeartbeatCount,   \* this.missedHeartbeatCount
    HeartbeatAckInfo,       \* this.HeartbeatAckInfo !== null (schemas loaded)
    \* ---- environment of the session ----
    sockets,                \* every WebSocket the session created, in order
    connectPc,              \* position of the owner's connect() call
    \* ---- the decoder taken alone ----
    frame,                  \* the inbound frame handed to decodeMessage
    decoded,                \* what decodeMessage gave for it, NotDecoded before
    \* ---- startup and login (main.ts, login.ts, tokenTest) ----
    pc,                     \* where the startup sequence stands
    count,                  \* the retry counter of the running request loop
    origin,                 \* the call site of main the flow runs for
    configToken,            \* global.appConfig.account.token
    raised,                 \* the error that ended the startup, "none" if none
    testing,                \* the token tokenTest was last called with
    persisted,              \* account.token in the configuration file
    writes,                 \* calls of persistConfig made by main
    cause,                  \* the message the raised error was made with
    identity,               \* the TokenTest main goes on with, once successful
    client,                 \* userId and token of the WssClient main made
    \* ---- history, for stating the claims ----
    last,                   \* the response just handled, NoRequest otherwise
    consecT,                \* consecutive TransportFailures of the running loop
    issued,                 \* data.token of the response just handled
    answered,               \* responses handled since the running loop began
    inbound,                \* the frame just handled, NoInbound otherwise
    errorReported,          \* config.onError was just called
    timerAtDestroy,         \* a reconnect timer was pending when destroy() ran
    sentSince,              \* heartbeat frames sent on this.ws since its open
                            \* or since the last acknowledgment, while the
                            \* heartbeat timer runs
    scheduling,             \* the close or forceReconnect just handled
    timerCause,             \* the socket whose event armed the pending timer
    caused,                 \* the live sockets whose events led to a connect()
    \* ---- device id and platform (device.ts, login.ts 29-44) ----
    account,                \* device and platform of global.appConfig.account
    configFile,             \* device and platform in the configuration file
    ids                     \* what the last call gave, and whether it saved

sessionVars == <<destroyed, ws, heartbeatTimer, reconnectTimer,
                 reconnectTimeouts, missedHeartbeatCount, HeartbeatAckInfo,
                 sockets, connectPc, inbound, errorReported, timerAtDestroy,
                 sentSince, scheduling, timerCause, caused>>

decodeVars == <<frame, decoded>>

loginVars == <<pc, count, origin, configToken, raised, testing, persisted,
               writes, last, consecT, issued, answered, cause, identity,
               client>>

deviceVars == <<account, configFile, ids>>

vars == <<sessionVars, decodeVars, loginVars, deviceVars>>

(***************************************************************************)
(* The session as one record, so that the methods compose as functions.    *)
(***************************************************************************)
Cur ==
    [destroyed |-> destroyed, ws |-> ws, heartbeatTimer |-> heartbeatTimer,
     reconnectTimer |-> reconnectTimer,
     reconnectTimeouts |-> reconnectTimeouts,
     missedHeartbeatCount |-> missedHeartbeatCount,
     HeartbeatAckInfo |-> HeartbeatAckInfo, sockets |-> sockets]

Commit(S) ==
    /\ destroyed' = S.destroyed
    /\ ws' = S.ws
    /\ heartbeatTimer' = S.heartbeatTimer
    /\ reconnectTimer' = S.reconnectTimer
    /\ reconnectTimeouts' = S.reconnectTimeouts
    /\ missedHeartbeatCount' = S.missedHeartbeatCount
    /\ HeartbeatAckInfo' = S.HeartbeatAckInfo
    /\ sockets' = S.sockets

\* new WebSocket(url): a socket starts CONNECTING, nothing sent on it
NewSocket(afterDestroy) ==
    [readyState |-> "CONNECTING", opened |-> FALSE, terminated |-> FALSE,
     loginSent |-> FALSE, heartbeatSent |-> FALSE,
     afterDestroy |-> afterDestroy]

SetSocket(S, i, field, val) ==
    [S EXCEPT !.sockets[i] = [@ EXCEPT ![field] = val]]

\* sendJson: the frame goes out only when this.ws is OPEN
sendJson(S, field) ==
    IF S.ws # 0 /\ S.sockets[S.ws].readyState = "OPEN"
    THEN SetSocket(S, S.ws, field, TRUE)
    ELSE S

sendLogin(S) == sendJson(S, "loginSent")

stopHeartbeat(S) == [S EXCEPT !.heartbeatTimer = FALSE]

startHeartbeat(S) == [stopHeartbeat(S) EXCEPT !.heartbeatTimer = TRUE]

\* scheduleReconnect that arms a timer whether or not one is pending
scheduleReconnect_noPendingCheck(S) ==
    IF S.destroyed
    THEN S
    ELSE [S EXCEPT !.reconnectTimer = TRUE, !.reconnectTimeouts = @ + 1]

scheduleReconnect(S) ==
    IF S.reconnectTimer \/ S.destroyed
    THEN S
    ELSE [S EXCEPT !.reconnectTimer = TRUE, !.reconnectTimeouts = @ + 1]

\* ws.terminate(): nothing on a CLOSED socket, else the socket is destroyed
\* and its close event follows
terminate(S, i) ==
    IF S.sockets[i].readyState = "CLOSED"
    THEN S
    ELSE SetSocket(SetSocket(S, i, "readyState", "CLOSING"),
                   i, "terminated", TRUE)

\* ws.close(): starts the closing handshake (or aborts the opening one)
close(S, i) ==
    IF S.sockets[i].readyState = "CLOSED"
    THEN S
    ELSE SetSocket(S, i, "readyState", "CLOSING")

forceReconnect(S) ==
    IF S.destroyed
    THEN S
    ELSE LET S1 == [stopHeartbeat(S) EXCEPT !.missedHeartbeatCount = 0]
         IN  IF S1.ws = 0
             THEN scheduleReconnect(S1)
             ELSE IF S1.sockets[S1.ws].readyState \in {"OPEN", "CONNECTING"}
                  THEN terminate(S1, S1.ws)
                  ELSE scheduleReconnect(S1)

sendHeartbeat(S) ==
    LET S1 == sendJson(S, "heartbeatSent")
        S2 == [S1 EXCEPT !.missedHeartbeatCount = @ + 1]
    IN  IF S2.missedHeartbeatCount >= maxMissedHeartbeatCount
        THEN forceReconnect(S2)
        ELSE S2

\* connect() after the await: the socket is created and becomes this.ws
connectResume(S) ==
    [S EXCEPT !.sockets = Append(@, NewSocket(S.destroyed)),
              !.ws = Len(S.sockets) + 1]

onOpen(S) ==
    startHeartbeat(sendLogin([S EXCEPT !.missedHeartbeatCount = 0]))

\* a close handler that schedules the reconnect whatever the session is
onClose_reconnectAlways(S) ==
    [stopHeartbeat(S) EXCEPT !.missedHeartbeatCount = 0,
                             !.reconnectTimer = TRUE,
                             !.reconnectTimeouts = @ + 1]

onClose(S) ==
    LET S1 == [stopHeartbeat(S) EXCEPT !.missedHeartbeatCount = 0]
    IN  IF ~S1.destroyed THEN scheduleReconnect(S1) ELSE S1

\* destroy() that leaves a pending reconnect timer alone
destroy_keepTimer(S) ==
    LET S1 == stopHeartbeat([S EXCEPT !.destroyed = TRUE])
        S3 == IF S1.ws # 0 THEN close(S1, S1.ws) ELSE S1
    IN  [S3 EXCEPT !.ws = 0]

destroy(S) ==
    LET S1 == stopHeartbeat([S EXCEPT !.destroyed = TRUE])
        S2 == IF S1.reconnectTimer
              THEN [S1 EXCEPT !.reconnectTimer = FALSE,
                              !.reconnectTimeouts = @ - 1]
              ELSE S1
        S3 == IF S2.ws # 0 THEN close(S2, S2.ws) ELSE S2
    IN  [S3 EXCEPT !.ws = 0]

(***************************************************************************)
(* Inbound frames.  A frame is a byte sequence; what the decoder can see   *)
(* of it is the base.cmd the probe schema reads (NoCmd: absent or empty),  *)
(* the schemas whose decode() accepts the bytes, and what JSON.parse makes *)
(* of its UTF-8 text.                                                      *)
(***************************************************************************)
Schemas ==
    {"HeartbeatAckInfo", "PushMessage", "DraftInput", "FileSendMessage",
     "EditMessage"}

NoCmd == "(none)"

CmdNames ==
    {"heartbeat_ack", "HEARTBEAT_ACK", "heartbeat", "pong", "PONG",
     "push_message", "Push_Message", "draft_input", "file_send_message",
     "edit_message", "EDIT_MESSAGE", "constructor", "__proto__", "toString",
     "stream_message", "heartbeat_timeout"}

\* what raw.toString("utf8") and JSON.parse make of the bytes.  "invalid":
\* valid UTF-8 that is not JSON; "binary": not valid UTF-8 (toString puts
\* U+FFFD for every invalid sequence) and not JSON; "plain": JSON without
\* base.cmd; "ack": JSON whose base.cmd is "pong"
JsonKinds == {"invalid", "binary", "plain", "ack"}

Frames ==
    [cmd : CmdNames \cup {NoCmd}, decodable : SUBSET Schemas, json : JsonKinds]

\* the frames a socket of the session delivers: protobuf bytes every schema
\* accepts, which are neither text nor JSON, with a command of each kind (in
\* the table, outside it, a key of Object.prototype, none); or bytes no
\* schema accepts, in which the probe reads no command
SessionCmds == {"PONG", "push_message", "heartbeat_timeout", "__proto__"}

SessionFrames ==
    [cmd : SessionCmds \cup {NoCmd}, decodable : {Schemas}, json : {"binary"}]
    \cup [cmd : {NoCmd}, decodable : {{}}, json : JsonKinds]

\* String.prototype.toLowerCase on the names of the model
toLowerCase(c) ==
    CASE c = "HEARTBEAT_ACK" -> "heartbeat_ack"
      [] c = "PONG"          -> "pong"
      [] c = "Push_Message"  -> "push_message"
      [] c = "EDIT_MESSAGE"  -> "edit_message"
      [] c = "toString"      -> "tostring"
      [] OTHER               -> c

\* String.prototype.includes for the two needles isHeartbeatAck uses
includes(c, needle) ==
    CASE needle = "heartbeat" ->
             c \in {"heartbeat_ack", "heartbeat", "heartbeat_timeout"}
      [] needle = "pong"      -> c \in {"pong"}
      [] OTHER                -> FALSE

Undefined == [tag |-> "undefined"]

\* cmdTypeMap with edit_message given the getter of its neighbour
cmdTypeMap_editAsPush(key) ==
    CASE key \in {"heartbeat_ack", "heartbeat", "pong"} ->
             [tag |-> "getter", type |-> "HeartbeatAckInfo"]
      [] key \in {"push_message", "edit_message"} ->
             [tag |-> "getter", type |-> "PushMessage"]
      [] key = "draft_input" -> [tag |-> "getter", type |-> "DraftInput"]
      [] key = "file_send_message" ->
             [tag |-> "getter", type |-> "FileSendMessage"]
      [] OTHER -> [tag |-> "undefined"]

\* the own properties of the cmdTypeMap object literal: getters of a type
cmdTypeMap(key) ==
    CASE key = "heartbeat_ack"     -> [tag |-> "getter", type |-> "HeartbeatAckInfo"]
      [] key = "heartbeat"         -> [tag |-> "getter", type |-> "HeartbeatAckInfo"]
      [] key = "pong"              -> [tag |-> "getter", type |-> "HeartbeatAckInfo"]
      [] key = "push_message"      -> [tag |-> "getter", type |-> "PushMessage"]
      [] key = "draft_input"       -> [tag |-> "getter", type |-> "DraftInput"]
      [] key = "file_send_message" -> [tag |-> "getter", type |-> "FileSendMessage"]
      [] key = "edit_message"      -> [tag |-> "getter", type |-> "EditMessage"]
      [] OTHER                     -> Undefined

\* what an object literal inherits from Object.prototype
ObjectPrototype(key) ==
    CASE key = "constructor" -> [tag |-> "function", returns |-> "plainObject"]
      [] key = "toString"    -> [tag |-> "function", returns |-> "string"]
      [] key = "__proto__"   -> [tag |-> "object"]
      [] OTHER               -> Undefined

\* this.cmdTypeMap[key]: own property first, then the prototype chain
cmdTypeMapLookup(key) ==
    IF cmdTypeMap(key) # Undefined THEN cmdTypeMap(key) ELSE ObjectPrototype(key)

\* probeCmd: decode with HeartbeatAckInfo, read a non-empty string base.cmd
probeCmd(loaded, f) ==
    IF ~loaded
    THEN NoCmd
    ELSE IF "HeartbeatAckInfo" \in f.decodable THEN f.cmd ELSE NoCmd

\* the catch branch of decodeMessage: JSON.parse of the text, else the text.
\* "text" is a string whose UTF-8 encoding is the bytes that arrived,
\* "lossyText" a string in which U+FFFD stands for the bytes that were not
\* UTF-8; neither is the Buffer ("raw")
decodeFallback(f) ==
    CASE f.json \in {"plain", "ack"} ->
             [kind |-> "json", type |-> "",
              cmd |-> IF f.json = "ack" THEN "pong" ELSE NoCmd]
      [] f.json = "binary" -> [kind |-> "lossyText", type |-> "", cmd |-> NoCmd]
      [] OTHER -> [kind |-> "text", type |-> "", cmd |-> NoCmd]

\* try { type.decode(raw); type.toObject(...) } catch { ... }
tryDecode(type, f) ==
    IF type \in Schemas /\ type \in f.decodable
    THEN [kind |-> "object", type |-> type, cmd |-> f.cmd]
    ELSE decodeFallback(f)

Thrown == [kind |-> "throw", type |-> "", cmd |-> NoCmd]

NotDecoded == [kind |-> "none", type |-> "", cmd |-> NoCmd]

decodeMessage(loaded, f) ==
    IF ~loaded
    THEN [kind |-> "raw", type |-> "", cmd |-> NoCmd]
    ELSE LET cmd == probeCmd(loaded, f)
             typeGetter == IF cmd # NoCmd
                           THEN cmdTypeMapLookup(toLowerCase(cmd))
                           ELSE Undefined
         IN  CASE typeGetter = Undefined -> tryDecode("HeartbeatAckInfo", f)
               [] typeGetter.tag = "getter" -> tryDecode(typeGetter.type, f)
               [] typeGetter.tag = "function" -> tryDecode(typeGetter.returns, f)
               [] OTHER -> Thrown   \* typeGetter() on a non-function: TypeError

\* readCmd: base.cmd of an object result, else null
readCmd(d) ==
    IF d.kind \in {"object", "json"} THEN d.cmd ELSE NoCmd

\* isHeartbeatAck without the toLowerCase() of the command
isHeartbeatAck_caseSensitive(d) ==
    LET cmd == readCmd(d)
    IN  IF cmd = NoCmd
        THEN FALSE
        ELSE includes(cmd, "heartbeat") \/ includes(cmd, "pong")

isHeartbeatAck(d) ==
    LET cmd == readCmd(d)
    IN  IF cmd = NoCmd
        THEN FALSE
        ELSE includes(toLowerCase(cmd), "heartbeat")
                 \/ includes(toLowerCase(cmd), "pong")

\* a message handler that takes every frame for a sign of life
onMessage_anyFrameResets(S, f) ==
    [S EXCEPT !.missedHeartbeatCount = 0]

\* the message handler of connect(): decode, classify, reset, deliver
onMessage(S, f) ==
    LET d == decodeMessage(S.HeartbeatAckInfo, f)
    IN  IF d = Thrown
        THEN S
        ELSE IF isHeartbeatAck(d)
             THEN [S EXCEPT !.missedHeartbeatCount = 0]
             ELSE S

\* history of the message handler: what decodeMessage gave for the frame,
\* whether config.onMessage was called with it, and the missed count the
\* handler found
NoInbound == [decoded |-> NotDecoded, delivered |-> FALSE, missedBefore |-> 0]

Handling(S, f) ==
    LET d == decodeMessage(S.HeartbeatAckInfo, f)
    IN  [decoded |-> d, delivered |-> d # Thrown,
         missedBefore |-> S.missedHeartbeatCount]

\* an action other than the message and error handlers and destroy()
Quiet ==
    /\ inbound' = NoInbound
    /\ errorReported' = FALSE
    /\ UNCHANGED timerAtDestroy

\* sendJson puts the frame on the wire: this.ws is OPEN
Sends(S) == S.ws # 0 /\ S.sockets[S.ws].readyState = "OPEN"

\* the heartbeat frames sent so far stand at n; nothing is kept once the
\* heartbeat timer is stopped
Sent(n) ==
    sentSince' = IF heartbeatTimer' THEN n ELSE 0

\* history of the close handler and of forceReconnect: which of them just
\* ran, and whether a reconnect timer was pending when it did
NoScheduling == [event |-> "none", pendingBefore |-> FALSE]

\* an action that runs neither of them, nor the reconnect timer's callback
Settled ==
    /\ scheduling' = NoScheduling
    /\ UNCHANGED <<timerCause, caused>>

\* the socket whose handler armed the reconnect timer, if this step armed it
ArmedBy(i) ==
    timerCause' = IF reconnectTimer' /\ ~reconnectTimer THEN i ELSE timerCause

(***************************************************************************)
(* Actions of the session.                                                 *)
(***************************************************************************)
SessionInit ==
    /\ destroyed = FALSE
    /\ ws = 0
    /\ heartbeatTimer = FALSE
    /\ reconnectTimer = FALSE
    /\ missedHeartbeatCount = 0
    /\ HeartbeatAckInfo = FALSE
    /\ sockets = <<>>
    /\ connectPc = "idle"
    /\ inbound = NoInbound
    /\ errorReported = FALSE
    /\ timerAtDestroy = FALSE
    /\ reconnectTimeouts = 0
    /\ sentSince = 0
    /\ scheduling = NoScheduling
    /\ timerCause = 0
    /\ caused = {}

\* the owner calls client.connect(), once as main does: the destroyed check,
\* then the await on loadProto(), whose first run reads the .proto file
ConnectCall ==
    /\ connectPc = "idle"
    /\ IF destroyed
       THEN connectPc' = "rejected"
       ELSE connectPc' = "loading"
    /\ UNCHANGED <<destroyed, ws, heartbeatTimer, reconnectTimer,
                   reconnectTimeouts, missedHeartbeatCount, HeartbeatAckInfo,
                   sockets, sentSince>>
    /\ Quiet
    /\ Settled
    /\ UNCHANGED <<decodeVars, loginVars, deviceVars>>

\* protobuf.load resolved: the five types are set, connect() goes on
LoadProtoDone ==
    /\ connectPc = "loading"
    /\ Len(sockets) < MaxSockets
    /\ Commit(connectResume([Cur EXCEPT !.HeartbeatAckInfo = TRUE]))
    /\ connectPc' = "resolved"
    /\ Sent(0)
    /\ Quiet
    /\ Settled
    /\ UNCHANGED <<decodeVars, loginVars, deviceVars>>

\* protobuf.load rejected: connect() rejects, nothing is set
LoadProtoFail ==
    /\ connectPc = "loading"
    /\ connectPc' = "rejected"
    /\ UNCHANGED <<destroyed, ws, heartbeatTimer, reconnectTimer,
                   reconnectTimeouts, missedHeartbeatCount, HeartbeatAckInfo,
                   sockets, sentSince>>
    /\ Quiet
    /\ Settled
    /\ UNCHANGED <<decodeVars, loginVars, deviceVars>>

\* the reconnect timer fires.  A reconnect is scheduled only once a socket
\* exists, so the schemas are loaded: loadProto() returns at once and the
\* continuation of connect() runs as a microtask, before any other timer or
\* socket callback
ReconnectTimerFire ==
    /\ reconnectTimeouts > 0
    /\ Len(sockets) < MaxSockets
    /\ LET S1 == [Cur EXCEPT !.reconnectTimer = FALSE,
                             !.reconnectTimeouts = @ - 1]
       IN  IF S1.destroyed THEN Commit(S1) ELSE Commit(connectResume(S1))
    /\ Sent(IF destroyed THEN sentSince ELSE 0)
    /\ caused' = IF destroyed
                 THEN caused
                 ELSE {j \in caused \cup {timerCause} :
                          sockets[j].readyState # "CLOSED"}
    /\ timerCause' = 0
    /\ scheduling' = NoScheduling
    /\ Quiet
    /\ UNCHANGED <<connectPc, decodeVars, loginVars, deviceVars>>

HeartbeatTick ==
    /\ heartbeatTimer
    /\ missedHeartbeatCount < MaxMissed
    /\ Commit(sendHeartbeat(Cur))
    /\ Sent(IF Sends(Cur) THEN sentSince + 1 ELSE sentSince)
    /\ scheduling' =
          IF ~destroyed
                /\ missedHeartbeatCount + 1 >= maxMissedHeartbeatCount
          THEN [event |-> "forceReconnect", pendingBefore |-> reconnectTimer]
          ELSE NoScheduling
    /\ ArmedBy(ws)
    /\ UNCHANGED caused
    /\ Quiet
    /\ UNCHANGED <<connectPc, decodeVars, loginVars, deviceVars>>

SocketOpen(i) ==
    /\ sockets[i].readyState = "CONNECTING"
    /\ Commit(onOpen(SetSocket(SetSocket(Cur, i, "readyState", "OPEN"),
                               i, "opened", TRUE)))
    /\ Sent(0)
    /\ Quiet
    /\ Settled
    /\ UNCHANGED <<connectPc, decodeVars, loginVars, deviceVars>>

\* an error event: the socket is on its way down and its close event will
\* follow; the error handler of connect() reports to config.onError, no more
SocketError(i) ==
    /\ sockets[i].readyState \in {"CONNECTING", "OPEN"}
    /\ Commit(SetSocket(Cur, i, "readyState", "CLOSING"))
    /\ inbound' = NoInbound
    /\ errorReported' = TRUE
    /\ UNCHANGED <<timerAtDestroy, sentSince>>
    /\ Settled
    /\ UNCHANGED <<connectPc, decodeVars, loginVars, deviceVars>>

\* the peer starts the closing handshake: no event yet
PeerClosing(i) ==
    /\ sockets[i].readyState = "OPEN"
    /\ Commit(SetSocket(Cur, i, "readyState", "CLOSING"))
    /\ UNCHANGED sentSince
    /\ Quiet
    /\ Settled
    /\ UNCHANGED <<connectPc, decodeVars, loginVars, deviceVars>>

SocketClose(i) ==
    /\ sockets[i].readyState # "CLOSED"
    /\ Commit(onClose(SetSocket(Cur, i, "readyState", "CLOSED")))
    /\ scheduling' = [event |-> "close", pendingBefore |-> reconnectTimer]
    /\ ArmedBy(i)
    /\ Sent(sentSince)
    /\ caused' = IF reconnectTimer' /\ ~reconnectTimer
                 THEN caused
                 ELSE caused \ {i}
    /\ Quiet
    /\ UNCHANGED <<connectPc, decodeVars, loginVars, deviceVars>>

SocketMessage(i) ==
    /\ sockets[i].readyState \in {"OPEN", "CLOSING"}
    /\ sockets[i].opened
    /\ \E f \in SessionFrames :
          /\ Commit(onMessage(Cur, f))
          /\ inbound' = Handling(Cur, f)
    /\ Sent(IF inbound'.delivered /\ isHeartbeatAck(inbound'.decoded)
            THEN 0
            ELSE sentSince)
    /\ Settled
    /\ errorReported' = FALSE
    /\ UNCHANGED <<connectPc, timerAtDestroy, decodeVars, loginVars, deviceVars>>

\* the owner calls destroy(), from any state, once
Destroy ==
    /\ ~destroyed
    /\ Commit(destroy(Cur))
    /\ inbound' = NoInbound
    /\ errorReported' = FALSE
    /\ timerAtDestroy' = reconnectTimer
    /\ scheduling' = NoScheduling
    /\ timerCause' = 0
    /\ Sent(sentSince)
    /\ caused' = {}
    /\ UNCHANGED <<connectPc, decodeVars, loginVars, deviceVars>>

SessionNext ==
    \/ ConnectCall
    \/ LoadProtoDone
    \/ LoadProtoFail
    \/ ReconnectTimerFire
    \/ HeartbeatTick
    \/ Destroy
    \/ \E i \in DOMAIN sockets : SocketOpen(i)
    \/ \E i \in DOMAIN sockets : PeerClosing(i)
    \/ \E i \in DOMAIN sockets : SocketError(i)
    \/ \E i \in DOMAIN sockets : SocketClose(i)
    \/ \E i \in DOMAIN sockets : SocketMessage(i)

(***************************************************************************)
(* The decoder taken alone: any frame, decoded with the schemas loaded.    *)
(***************************************************************************)
DecodeIdle ==
    /\ frame = [cmd |-> NoCmd, decodable |-> {}, json |-> "invalid"]
    /\ decoded = NotDecoded

Arrive ==
    /\ decoded # NotDecoded
    /\ frame' \in Frames
    /\ decoded' = NotDecoded
    /\ UNCHANGED <<sessionVars, loginVars, deviceVars>>

Decode ==
    /\ decoded = NotDecoded
    /\ decoded' = decodeMessage(TRUE, frame)
    /\ UNCHANGED <<frame, sessionVars, loginVars, deviceVars>>

DecodeNext == Arrive \/ Decode

(***************************************************************************)
(* request() of http.ts: what the network gave, and the HttpResponse made  *)
(* of it.                                                                  *)
(***************************************************************************)
\* body "code0": JSON with a code other than 1; "code1": JSON with code 1;
\* "malformed": not JSON
RawResults ==
    {[kind |-> "network", ok |-> FALSE, body |-> "none"],
     [kind |-> "timeout", ok |-> FALSE, body |-> "none"]}
    \cup [kind : {"answered"}, ok : BOOLEAN,
          body : {"code0", "code1", "malformed"}]

\* request() whose catch lets a timeout go on to the caller
request_rethrowTimeout(raw) ==
    IF raw.kind = "timeout"
    THEN [success |-> FALSE, isJson |-> FALSE, code |-> "thrown"]
    ELSE IF raw.kind # "answered"
    THEN [success |-> FALSE, isJson |-> FALSE, code |-> "undefined"]
    ELSE LET isJson == raw.body # "malformed"
             code == CASE raw.body = "code1" -> "1"
                       [] raw.body = "code0" -> "0"
                       [] OTHER -> "undefined"
         IN  IF ~raw.ok
             THEN [success |-> FALSE, isJson |-> isJson, code |-> code]
             ELSE [success |-> TRUE, isJson |-> FALSE, code |-> code]

\* isJson exists on a failure only; code is data.code (or error.code)
request(raw) ==
    IF raw.kind # "answered"
    THEN [success |-> FALSE, isJson |-> FALSE, code |-> "undefined"]
    ELSE LET isJson == raw.body # "malformed"
             code == CASE raw.body = "code1" -> "1"
                       [] raw.body = "code0" -> "0"
                       [] OTHER -> "undefined"
         IN  IF ~raw.ok
             THEN [success |-> FALSE, isJson |-> isJson, code |-> code]
             ELSE [success |-> TRUE, isJson |-> FALSE, code |-> code]

\* the outcome classes of the specification: a malformed body is a
\* TransportFailure, an answer with a JSON body that is not a success is an
\* ApplicationRejection
Outcome(raw) ==
    CASE raw.kind # "answered" -> "TransportFailure"
      [] raw.body = "malformed" -> "TransportFailure"
      [] raw.ok /\ raw.body = "code1" -> "Success"
      [] OTHER -> "ApplicationRejection"

MAX_RETRIES == 5

\* the tokens the login endpoints issue
Tokens == {"T", "U"}

\* data.token of a response: a body with code 1 carries one
TokensOf(raw) == IF raw.body = "code1" THEN Tokens ELSE {"none"}

\* one pass of the loop of tokenTest on response r, count = attempt - 1
tokenTestStep(r, c) ==
    IF r.success /\ r.code = "1" THEN [to |-> "success", count |-> c]
    ELSE IF r.success THEN [to |-> "reject", count |-> c]
    ELSE IF r.isJson THEN [to |-> "reject", count |-> c]
    ELSE IF c + 1 = MAX_RETRIES THEN [to |-> "raise", count |-> c + 1]
    ELSE [to |-> "retry", count |-> c + 1]

\* the email-login loop with the rejection handling of captcha()
emailLoginStep_retryRejection(r, c) ==
    IF r.success /\ r.code = "1" THEN [to |-> "success", count |-> c]
    ELSE IF c + 1 >= 5 THEN [to |-> "raise", count |-> c + 1]
    ELSE [to |-> "retry", count |-> c + 1]

\* one pass of the email-login loop of tryLogin
emailLoginStep(r, c) ==
    IF r.success /\ r.code = "1" THEN [to |-> "success", count |-> c]
    ELSE IF r.success THEN [to |-> "reject", count |-> c]
    ELSE IF r.isJson THEN [to |-> "reject", count |-> c]
    ELSE IF c + 1 >= 5 THEN [to |-> "raise", count |-> c + 1]
    ELSE [to |-> "retry", count |-> c + 1]

\* one pass of the verification-login loop of tryLogin
phoneLoginStep(r, c) ==
    IF r.success /\ r.code = "1" THEN [to |-> "success", count |-> c]
    ELSE IF r.success THEN [to |-> "reject", count |-> c]
    ELSE IF r.isJson THEN [to |-> "reject", count |-> c]
    ELSE IF c + 1 >= 5 THEN [to |-> "raise", count |-> c + 1]
    ELSE [to |-> "retry", count |-> c + 1]

\* one pass of the loop of captcha(): every failure is counted
captchaStep(r, c) ==
    IF r.success /\ r.code = "1" THEN [to |-> "success", count |-> c]
    ELSE IF c + 1 >= 5 THEN [to |-> "raise", count |-> c + 1]
    ELSE [to |-> "retry", count |-> c + 1]

\* a verification() whose every answer counts as the code having been sent
verificationStep_ignoreFailure(r, c) ==
    IF r.success \/ r.isJson THEN [to |-> "success", count |-> c]
    ELSE IF c + 1 >= 5 THEN [to |-> "raise", count |-> c + 1]
    ELSE [to |-> "retry", count |-> c + 1]

\* one pass of the loop of verification()
verificationStep(r, c) ==
    IF r.success /\ r.code = "1" THEN [to |-> "success", count |-> c]
    ELSE IF r.success THEN [to |-> "reject", count |-> c]
    ELSE IF r.isJson THEN [to |-> "reject", count |-> c]
    ELSE IF c + 1 >= 5 THEN [to |-> "raise", count |-> c + 1]
    ELSE [to |-> "retry", count |-> c + 1]

\* what the loop puts into err before count++: response.error.message
\* (undefined on the text of an answer, which is a string), in captcha()
\* data.msg or error.msg when there is a body, in tokenTest "Unknown error"
\* for an undefined message.  "msg" is the message of a JSON body.
errorMessage(loop, raw) ==
    CASE raw.kind # "answered" -> raw.kind
      [] loop = "captcha" /\ raw.body # "malformed" -> "msg"
      [] loop = "tokenTest" -> "Unknown error"
      [] OTHER -> "undefined"

NoRawResult == [kind |-> "none", ok |-> FALSE, body |-> "none"]

NoRequest ==
    [loop |-> "none", raw |-> NoRawResult, countBefore |-> 0,
     countAfter |-> 0, to |-> "none"]

\* the history of one handled response
Handled(loop, raw, step) ==
    /\ last' = [loop |-> loop, raw |-> raw, countBefore |-> count,
                countAfter |-> step.count, to |-> step.to]
    /\ consecT' = IF Outcome(raw) = "TransportFailure" THEN consecT + 1 ELSE 0
    /\ cause' = IF step.to = "raise" THEN errorMessage(loop, raw) ELSE cause

\* the positions of the startup at which a request loop runs
LoopPcs == {"emailLogin", "captcha", "verification", "phoneLogin", "tokenTest"}

\* the responses the loop has handled: none when the step began another
\* loop, one more otherwise
Answered ==
    answered' = IF pc' # pc /\ pc' \in LoopPcs THEN 0 ELSE answered + 1

\* a request loop that begins with the count of the loop before it
EnterLoop_keepCount(to) ==
    /\ pc' = to
    /\ count' = count

\* a request loop begins: let count = 0
EnterLoop(to) ==
    /\ pc' = to
    /\ count' = 0

\* a startup that goes on to the session after an error
Raise_goOn(err) ==
    /\ pc' = "session"
    /\ raised' = err

\* the error leaves login() and main(); index() catches it and exits
Raise(err) ==
    /\ pc' = "raised"
    /\ raised' = err

\* the user ids the identity lookup may answer with
UserIds == {"u1", "u2"}

\* no successful TokenTest yet; no WssClient made yet
NoIdentity == [userId |-> "none", token |-> "none"]

\* a WssClient made without the token of the identity
clientConfig_noToken(testData) ==
    [userId |-> testData.userId, token |-> "none"]

\* the userId and token main gives to new WssClient
clientConfig(testData) ==
    [userId |-> testData.userId, token |-> testData.token]

(***************************************************************************)
(* Actions of the startup sequence.                                        *)
(***************************************************************************)
LoginInit ==
    /\ pc = "main"
    /\ count = 0
    /\ origin = "none"
    /\ configToken \in {"none", "stored"}
    /\ raised = "none"
    /\ testing = "none"
    /\ persisted = configToken
    /\ writes = 0
    /\ last = NoRequest
    /\ consecT = 0
    /\ issued = "none"
    /\ answered = 0
    /\ cause = "none"
    /\ identity = NoIdentity
    /\ client = NoIdentity

\* main: tokenTest of the configured token, or login()
MainStart ==
    /\ pc = "main"
    /\ IF configToken # "none"
       THEN EnterLoop("tokenTest") /\ origin' = "stored"
                /\ testing' = configToken
       ELSE pc' = "select" /\ count' = count /\ origin' = "login"
                /\ UNCHANGED testing
    /\ last' = NoRequest
    /\ consecT' = 0
    /\ issued' = "none"
    /\ answered' = 0
    /\ UNCHANGED <<configToken, raised, persisted, writes, cause, identity,
                   client>>
    /\ UNCHANGED <<sessionVars, decodeVars, deviceVars>>

\* login(): select a mode; tryLogin: email, or phone whose first step is
\* captcha()
Select ==
    /\ pc = "select"
    /\ \E mode \in {"email", "phone"} :
          IF mode = "email" THEN EnterLoop("emailLogin")
                            ELSE EnterLoop("captcha")
    /\ last' = NoRequest
    /\ consecT' = 0
    /\ issued' = "none"
    /\ answered' = 0
    /\ UNCHANGED <<origin, configToken, raised, testing, persisted, writes,
                   cause, identity, client>>
    /\ UNCHANGED <<sessionVars, decodeVars, deviceVars>>

EmailLoginResponse ==
    /\ pc = "emailLogin"
    /\ \E raw \in RawResults : \E token \in TokensOf(raw) :
          LET step == emailLoginStep(request(raw), count)
          IN  /\ Handled("emailLogin", raw, step)
              /\ issued' = token
              /\ CASE step.to = "success" ->
                          EnterLoop("tokenTest") /\ testing' = token
                              /\ UNCHANGED raised
                   [] step.to = "reject" ->
                          pc' = "select" /\ count' = step.count
                              /\ UNCHANGED <<raised, testing>>
                   [] step.to = "retry" ->
                          pc' = pc /\ count' = step.count
                              /\ UNCHANGED <<raised, testing>>
                   [] OTHER ->
                          Raise("HttpRequestFailedOn5Error")
                              /\ count' = step.count /\ UNCHANGED testing
    /\ Answered
    /\ UNCHANGED <<origin, configToken, persisted, writes, identity, client>>
    /\ UNCHANGED <<sessionVars, decodeVars, deviceVars>>

CaptchaResponse ==
    /\ pc = "captcha"
    /\ \E raw \in RawResults :
          LET step == captchaStep(request(raw), count)
          IN  /\ Handled("captcha", raw, step)
              /\ CASE step.to = "success" ->
                          EnterLoop("verification") /\ UNCHANGED raised
                   [] step.to = "retry" ->
                          pc' = pc /\ count' = step.count /\ UNCHANGED raised
                   [] OTHER ->
                          Raise("HttpRequestFailedOn5Error")
                              /\ count' = step.count
    /\ issued' = "none"
    /\ Answered
    /\ UNCHANGED <<origin, configToken, testing, persisted, writes, identity,
                   client>>
    /\ UNCHANGED <<sessionVars, decodeVars, deviceVars>>

VerificationResponse ==
    /\ pc = "verification"
    /\ \E raw \in RawResults :
          LET step == verificationStep(request(raw), count)
          IN  /\ Handled("verification", raw, step)
              /\ CASE step.to = "success" ->
                          EnterLoop("phoneLogin") /\ UNCHANGED raised
                   [] step.to = "reject" ->
                          pc' = "select" /\ count' = step.count
                              /\ UNCHANGED raised
                   [] step.to = "retry" ->
                          pc' = pc /\ count' = step.count /\ UNCHANGED raised
                   [] OTHER ->
                          Raise("HttpRequestFailedOn5Error")
                              /\ count' = step.count
    /\ issued' = "none"
    /\ Answered
    /\ UNCHANGED <<origin, configToken, testing, persisted, writes, identity,
                   client>>
    /\ UNCHANGED <<sessionVars, decodeVars, deviceVars>>

PhoneLoginResponse ==
    /\ pc = "phoneLogin"
    /\ \E raw \in RawResults : \E token \in TokensOf(raw) :
          LET step == phoneLoginStep(request(raw), count)
          IN  /\ Handled("phoneLogin", raw, step)
              /\ issued' = token
              /\ CASE step.to = "success" ->
                          EnterLoop("tokenTest") /\ testing' = token
                              /\ UNCHANGED raised
                   [] step.to = "reject" ->
                          pc' = "select" /\ count' = step.count
                              /\ UNCHANGED <<raised, testing>>
                   [] step.to = "retry" ->
                          pc' = pc /\ count' = step.count
                              /\ UNCHANGED <<raised, testing>>
                   [] OTHER ->
                          Raise("HttpRequestFailedOn5Error")
                              /\ count' = step.count /\ UNCHANGED testing
    /\ Answered
    /\ UNCHANGED <<origin, configToken, persisted, writes, identity, client>>
    /\ UNCHANGED <<sessionVars, decodeVars, deviceVars>>

\* persistConfig: the configuration in memory goes to the file
persistConfig(token) ==
    /\ persisted' = token
    /\ writes' = writes + 1

\* main that goes on to the session without storing the token
mainValid_noStore ==
    /\ pc' = "session"
    /\ UNCHANGED <<configToken, persisted, writes, origin, raised>>

\* main after a TokenTest came back with success: true; testData.token is
\* the token tokenTest was called with
mainValid ==
    /\ pc' = "session"
    /\ IF configToken = "none"
       THEN configToken' = testing /\ persistConfig(testing)
       ELSE UNCHANGED <<configToken, persisted, writes>>
    /\ UNCHANGED <<origin, raised>>

\* main that keeps a configured token the lookup reported invalid
mainInvalid_keepToken ==
    IF origin = "stored"
    THEN /\ pc' = "select"
         /\ origin' = "relogin"
         /\ UNCHANGED <<raised, configToken, persisted, writes>>
    ELSE /\ Raise("InvalidTokenError")
         /\ UNCHANGED <<origin, configToken, persisted, writes>>

\* main after a TokenTest came back with success: false
mainInvalid ==
    IF origin = "stored"
    THEN /\ configToken' = "none"
         /\ persistConfig("none")
         /\ pc' = "select"
         /\ origin' = "relogin"
         /\ UNCHANGED raised
    ELSE /\ Raise("InvalidTokenError")
         /\ UNCHANGED <<origin, configToken, persisted, writes>>

TokenTestResponse ==
    /\ pc = "tokenTest"
    /\ \E raw \in RawResults :
          LET step == tokenTestStep(request(raw), count)
          IN  /\ Handled("tokenTest", raw, step)
              /\ count' = step.count
              /\ IF step.to = "success"
                 THEN \E uid \in UserIds :
                         identity' = [userId |-> uid, token |-> testing]
                 ELSE UNCHANGED identity
              /\ CASE step.to = "success" -> mainValid
                   [] step.to = "reject" -> mainInvalid
                   [] step.to = "retry" ->
                          pc' = pc
                              /\ UNCHANGED <<origin, configToken, raised,
                                             persisted, writes>>
                   [] OTHER ->
                          Raise("HttpRequestFailedOn5Error")
                              /\ UNCHANGED <<origin, configToken, persisted,
                                             writes>>
    /\ issued' = "none"
    /\ Answered
    /\ UNCHANGED <<testing, client>>
    /\ UNCHANGED <<sessionVars, decodeVars, deviceVars>>

\* main with a valid token: new WssClient(...) and await client.connect()
MainSession ==
    /\ pc = "session"
    /\ pc' = "connect"
    /\ client' = clientConfig(identity)
    /\ UNCHANGED <<count, origin, configToken, raised, testing, persisted,
                   writes, last, consecT, issued, answered, cause, identity>>
    /\ UNCHANGED <<sessionVars, decodeVars, deviceVars>>

LoginNext ==
    \/ MainStart
    \/ Select
    \/ EmailLoginResponse
    \/ CaptchaResponse
    \/ VerificationResponse
    \/ PhoneLoginResponse
    \/ TokenTestResponse
    \/ MainSession

(***************************************************************************)
(* Device id and platform: getIdAndPlatform of device.ts, which the        *)
(* constructor of WssClient calls, and the opening of tryLogin.            *)
(***************************************************************************)
NoValue == "none"

\* what generateDeviceId() may give: the fingerprint it hashes holds the
\* time, so two calls differ
DeviceIds == {"d1", "d2", "d3"}

\* the platform names of the switch of getPlatform
Platforms == {"windows", "linux", "android", "macos"}

\* getPlatform on account acc, p being the name the switch arrives at
getPlatform(acc, p) ==
    IF acc.platform # NoValue THEN acc.platform ELSE p

\* getIdAndPlatform that asks generateDeviceId() whatever is stored
getIdAndPlatform_alwaysGenerate(acc, id, p) ==
    [deviceId |-> id, platform |-> getPlatform(acc, p),
     save |-> acc.device = NoValue \/ acc.platform = NoValue]

\* getIdAndPlatform on account acc, id being what generateDeviceId() would
\* give: the two values, and whether they are stored and persisted
getIdAndPlatform(acc, id, p) ==
    [deviceId |-> IF acc.device # NoValue THEN acc.device ELSE id,
     platform |-> getPlatform(acc, p),
     save |-> acc.device = NoValue \/ acc.platform = NoValue]

\* the opening of tryLogin: the platform defaults to "nano-" + deviceId
tryLoginIds(acc, id) ==
    LET deviceId == IF acc.device # NoValue THEN acc.device ELSE id
    IN  [deviceId |-> deviceId,
         platform |-> IF acc.platform # NoValue
                      THEN acc.platform
                      ELSE "nano-" \o deviceId,
         save |-> acc.device = NoValue \/ acc.platform = NoValue]

NoIds == [deviceId |-> NoValue, platform |-> NoValue, saved |-> FALSE]

\* the call stores both values and saves the configuration when one was
\* missing; saveConfig may throw, which both callers catch and log
StoreIds(r, written) ==
    /\ ids' = [deviceId |-> r.deviceId, platform |-> r.platform,
               saved |-> r.save]
    /\ IF r.save
       THEN /\ account' = [device |-> r.deviceId, platform |-> r.platform]
            /\ configFile' = IF written THEN account' ELSE configFile
       ELSE UNCHANGED <<account, configFile>>

\* no call made: the configuration file has neither value
DeviceIdle ==
    /\ configFile = [device |-> NoValue, platform |-> NoValue]
    /\ account = configFile
    /\ ids = NoIds

\* loadConfigOnStarting: the file may carry either value, typed in by hand
DeviceInit ==
    /\ configFile \in [device : {NoValue, "d0"},
                       platform : {NoValue} \cup Platforms]
    /\ account = configFile
    /\ ids = NoIds

GetIdAndPlatform ==
    /\ \E id \in DeviceIds, p \in Platforms, written \in BOOLEAN :
          StoreIds(getIdAndPlatform(account, id, p), written)
    /\ UNCHANGED <<sessionVars, decodeVars, loginVars>>

TryLogin ==
    /\ \E id \in DeviceIds, written \in BOOLEAN :
          StoreIds(tryLoginIds(account, id), written)
    /\ UNCHANGED <<sessionVars, decodeVars, loginVars>>

\* the process starts again: global.appConfig is read from the file
Restart ==
    /\ ids # NoIds
    /\ account' = configFile
    /\ ids' = NoIds
    /\ UNCHANGED configFile
    /\ UNCHANGED <<sessionVars, decodeVars, loginVars>>

DeviceNext == GetIdAndPlatform \/ TryLogin \/ Restart

(***************************************************************************)
(* Claims about the session.                                               *)
(***************************************************************************)
Live(i) == sockets[i].readyState # "CLOSED"

\* the states of section 4.6, read off the fields
StateOpen ==
    /\ ~destroyed
    /\ ~reconnectTimer
    /\ ws # 0
    /\ sockets[ws].opened
    /\ sockets[ws].readyState # "CLOSED"
    /\ ~sockets[ws].terminated

\* C1: once destroy() has been called no new socket is ever created, also
\* when destroy() ran while a connect() call was suspended at its await.
C1_NoSocketAfterDestroy ==
    [][destroyed => Len(sockets') = Len(sockets)]_vars

\* C2: at every moment at most one socket of the session is live
\* (connecting, open or closing, its close event not yet emitted).
C2_AtMostOneLiveSocket ==
    Cardinality({i \in DOMAIN sockets : Live(i)}) <= 1

\* C3: the heartbeat timer is armed exactly when the session is Open.
C3_HeartbeatArmedIffOpen ==
    heartbeatTimer <=> StateOpen

\* C4: the heartbeat tick that brings missedCount to the threshold calls
\* forceReconnect once and is the last tick of that connection: the tick
\* leaves the heartbeat timer stopped and the count below the threshold.
C4_OneForceReconnectAtThreshold ==
    [][(HeartbeatTick
          /\ missedHeartbeatCount + 1 >= maxMissedHeartbeatCount)
         => (~heartbeatTimer'
               /\ missedHeartbeatCount' < maxMissedHeartbeatCount)]_vars

\* a decoded result whose base.cmd holds "heartbeat" or "pong", the letter
\* case aside
HeartbeatRelated(d) ==
    /\ d.kind \in {"object", "json"}
    /\ d.cmd # NoCmd
    /\ \/ includes(toLowerCase(d.cmd), "heartbeat")
       \/ includes(toLowerCase(d.cmd), "pong")

\* C13: a frame whose decoded base.cmd holds "heartbeat" or "pong" in any
\* letter case leaves missedCount at 0, whichever branch of the decoder gave
\* the result: a table schema, the generic envelope for a command outside
\* the table, or the JSON fallback.
C13_AckResetsMissedCount ==
    HeartbeatRelated(inbound.decoded) => missedHeartbeatCount = 0

C13_Witness ==
    /\ inbound.decoded.cmd = "PONG"
    /\ inbound.decoded.kind = "object"
    /\ inbound.missedBefore > 0
    /\ missedHeartbeatCount = 0

\* C14: once destroy() has run no reconnect timer is pending, so a timer
\* that was pending when destroy() was called never calls connect(), and no
\* timer calls connect() on a destroyed session.
C14_DestroyCancelsReconnect ==
    [][/\ destroyed' => ~reconnectTimer'
       /\ destroyed => ~ReconnectTimerFire]_vars

C14_Witness ==
    /\ destroyed
    /\ timerAtDestroy
    /\ ~reconnectTimer

\* C15: a close event and an error event on a session that is not destroyed
\* each leave the heartbeat timer stopped and a reconnect scheduled; the
\* error event does so on its own, before any close event.
C15_CloseOrErrorStartsReconnect ==
    [][(~destroyed /\ \E i \in DOMAIN sockets : SocketClose(i) \/ SocketError(i))
         => (~heartbeatTimer' /\ reconnectTimer')]_vars

\* the owner's connect() call rejected (the schemas did not load)
ConnectFailed == connectPc = "rejected"

CurrentClosed == ws # 0 /\ sockets[ws].readyState = "CLOSED"

\* C16: on a session that is never destroyed, whenever the current socket has
\* closed or a connect() call has rejected, a further connect() attempt (a
\* new socket) follows, as long as the model may still create one.
C16_FailureLeadsToConnect ==
    \A n \in 0..(MaxSockets - 1) :
        (~destroyed /\ Len(sockets) = n /\ (ConnectFailed \/ CurrentClosed))
            ~> (destroyed \/ Len(sockets) > n)

\* C17: the open handler of every socket sends the login frame on that
\* socket before it starts the heartbeat timer, so no socket carries a
\* heartbeat frame without carrying its login frame first.
C17_LoginBeforeHeartbeat ==
    [][/\ \A i \in DOMAIN sockets :
             SocketOpen(i) => (sockets'[i].loginSent /\ heartbeatTimer')
       /\ \A i \in DOMAIN sockets' :
             sockets'[i].heartbeatSent => sockets'[i].loginSent]_vars

\* C18: every frame that arrives is handed to config.onMessage, once, by
\* the handler that received it: what the caller is given, in order, is the
\* decoding of what arrived.
C18_EveryFrameDelivered ==
    inbound.decoded # NotDecoded => inbound.delivered

\* C23: once destroy() has run the destroyed flag stays true, a connect()
\* call made afterwards rejects and creates no socket, and neither the
\* heartbeat timer nor a reconnect timer is ever armed again.
C23_DestroyedIsTerminal ==
    [][destroyed
         => /\ destroyed'
            /\ ConnectCall => (connectPc' = "rejected" /\ sockets' = sockets)
            /\ ~heartbeatTimer'
            /\ ~reconnectTimer' /\ reconnectTimeouts' = 0]_vars

\* C25: while the heartbeat timer runs, missedCount is the number of
\* heartbeat frames that went out on the current socket since the later of
\* its open and the last message classified as an acknowledgment.
C25_MissedCountIsFramesSent ==
    heartbeatTimer => missedHeartbeatCount = sentSince

\* C26: a forceReconnect on a session that is not destroyed leaves the
\* heartbeat timer stopped and missedCount at 0, whatever the ready state
\* of the current socket, and what it does to a socket leads to one
\* connect() call, not two: the reconnect timer never runs connect() for a
\* socket whose events already led to a connect().
C26_ForceReconnectConnectsOnce ==
    [][/\ (HeartbeatTick /\ ~destroyed
             /\ missedHeartbeatCount + 1 >= maxMissedHeartbeatCount)
             => (~heartbeatTimer' /\ missedHeartbeatCount' = 0)
       /\ (ReconnectTimerFire /\ ~destroyed) => timerCause \notin caused]_vars

\* C27: a close event or an error event on a destroyed session leaves no
\* reconnect timer set and arms no heartbeat timer.
C27_NoReconnectAfterDestroy ==
    [][(destroyed
          /\ \E i \in DOMAIN sockets : SocketClose(i) \/ SocketError(i))
         => /\ ~reconnectTimer' /\ reconnectTimeouts' = 0
            /\ ~heartbeatTimer => ~heartbeatTimer']_vars

C27_Witness ==
    /\ destroyed
    /\ scheduling.event = "close"
    /\ ~reconnectTimer
    /\ ~heartbeatTimer

\* C28: at most one reconnect timeout is outstanding, the one the
\* reconnectTimer field holds; a close or a forceReconnect that finds a
\* timer pending leaves that one timer, so one connect() call follows.
C28_OneReconnectTimer ==
    /\ reconnectTimeouts = IF reconnectTimer THEN 1 ELSE 0
    /\ scheduling.pendingBefore => (reconnectTimer /\ reconnectTimeouts = 1)

C28_Witness ==
    /\ scheduling.event = "close"
    /\ scheduling.pendingBefore
    /\ reconnectTimer
    /\ reconnectTimeouts = 1

\* C35: missedCount is always within 0..2, and between callbacks on a
\* session that is not destroyed it is at most 1: the tick that brings it to
\* 2 sets it back to 0.
C35_MissedCountRange ==
    /\ missedHeartbeatCount \in 0..maxMissedHeartbeatCount
    /\ ~destroyed => missedHeartbeatCount <= 1

\* C36: the close event of a socket that is not this.ws, while a newer
\* socket is, leaves the heartbeat timer, missedCount and the reconnect
\* timer as they were.
C36_StaleCloseIsIgnored ==
    [][\A i \in DOMAIN sockets :
          (SocketClose(i) /\ ~destroyed /\ ws # 0 /\ i # ws)
             => UNCHANGED <<heartbeatTimer, missedHeartbeatCount,
                            reconnectTimer>>]_vars

\* C37: once destroy() was called no socket of the session is sent a login
\* frame or a heartbeat frame.
C37_NoFramesAfterDestroy ==
    [][destroyed
         => /\ \A i \in DOMAIN sockets :
                  sockets'[i].loginSent = sockets[i].loginSent
            /\ ~(HeartbeatTick /\ Sends(Cur))]_vars

\* C38: a frame whose decoded result is not heartbeat-related (no base.cmd,
\* a base.cmd with neither "heartbeat" nor "pong", a text or raw fallback,
\* or no result at all) leaves missedCount, the heartbeat timer and the
\* reconnect timer unchanged.
C38_OrdinaryFrameKeepsNothingAlive ==
    [][\A i \in DOMAIN sockets :
          (SocketMessage(i) /\ ~HeartbeatRelated(inbound'.decoded))
             => UNCHANGED <<missedHeartbeatCount, heartbeatTimer,
                            reconnectTimer>>]_vars

C38_Witness ==
    /\ inbound.decoded.kind = "object"
    /\ inbound.decoded.cmd = "push_message"
    /\ inbound.delivered
    /\ inbound.missedBefore = 1
    /\ missedHeartbeatCount = 1
    /\ heartbeatTimer
    /\ ~destroyed

(***************************************************************************)
(* Claims about the request loops.                                         *)
(***************************************************************************)
Responded == last.loop # "none"

\* C5: a request loop raises HttpRequestFailedOn5Error on the response that
\* is its 5th consecutive TransportFailure, and on no other response.
C5_RaiseAfterExactlyFive ==
    Responded => ((last.to = "raise") <=> (consecT = 5))

\* C6: a Success or an ApplicationRejection ends the loop on the spot and
\* leaves the attempt counter as it was.
C6_RejectionAndSuccessEndLoop ==
    (Responded /\ Outcome(last.raw) \in {"Success", "ApplicationRejection"})
        => (last.to \in {"success", "reject"}
              /\ last.countAfter = last.countBefore)

\* C7: an answered request whose body is not JSON is a TransportFailure: it
\* is counted and retried (or is the 5th failure), never taken as a
\* rejection or an Invalid credential.
C7_MalformedBodyIsTransportFailure ==
    (Responded /\ last.raw.kind = "answered" /\ last.raw.body = "malformed")
        => (last.to \in {"retry", "raise"}
              /\ last.countAfter = last.countBefore + 1)

\* C8: a rejection at the CAPTCHA step or at the SMS-code step sends the
\* phone flow back to mode selection: no second request, no error raised.
C8_PhoneRejectionReturnsToSelect ==
    (last.loop \in {"captcha", "verification"}
       /\ Outcome(last.raw) = "ApplicationRejection")
        => (pc = "select" /\ raised = "none")

\* C19: in the email flow a response with the success sentinel and token T
\* starts the validator on exactly T, and what the validator reports is
\* what main goes on with; a response with another sentinel is followed by
\* no further email-login request and by mode selection.
C19_EmailLoginOutcome ==
    /\ (last.loop = "emailLogin" /\ Outcome(last.raw) = "Success")
          => (pc = "tokenTest" /\ count = 0
                /\ issued \in Tokens /\ testing = issued)
    /\ (pc = "session" /\ origin # "stored") => configToken = testing
    /\ (last.loop = "emailLogin" /\ last.raw.kind = "answered"
           /\ last.raw.body = "code0")
          => (pc = "select" /\ raised = "none")

C19_Witness ==
    /\ last.loop = "emailLogin"
    /\ Outcome(last.raw) = "Success"
    /\ issued = "T"
    /\ testing = "T"
    /\ pc = "tokenTest"

C21_InvalidNeverFatal ==
    (last.loop = "tokenTest" /\ last.to = "reject")
        => (raised = "none" /\ pc = "select"
              /\ configToken = "none" /\ persisted = "none")

\* C22: when the lookup has failed 5 times the startup ends with the error:
\* the step neither writes the configuration nor changes the token, and a
\* startup that raised never reaches new WssClient(...) nor connect().
C22_RetryExhaustedAborts ==
    [][/\ (TokenTestResponse /\ last'.to = "raise")
             => (pc' = "raised" /\ raised' = "HttpRequestFailedOn5Error"
                   /\ persisted' = persisted /\ writes' = writes
                   /\ configToken' = configToken)
       /\ raised' # "none" => pc' \notin {"session", "connect"}]_vars

C22_Witness ==
    /\ pc = "raised"
    /\ raised = "HttpRequestFailedOn5Error"
    /\ last.loop = "tokenTest"
    /\ last.to = "raise"
    /\ origin = "stored"
    /\ persisted = "stored"
    /\ writes = 0

\* C29: in the phone flow the SMS-code request is first made by a step
\* that handled a successful CAPTCHA response, the verification-login
\* request is first made by a step that handled a successful SMS-code
\* response, and an SMS-code response that is not a success is never
\* followed by a verification-login request.
C29_PhoneFlowOrder ==
    [][/\ (pc' = "verification" /\ pc # "verification")
             => (pc = "captcha" /\ last'.loop = "captcha"
                   /\ Outcome(last'.raw) = "Success")
       /\ (pc' = "phoneLogin" /\ pc # "phoneLogin")
             => (pc = "verification" /\ last'.loop = "verification"
                   /\ Outcome(last'.raw) = "Success")
       /\ (pc = "verification" /\ Outcome(last'.raw) # "Success")
             => pc' # "phoneLogin"]_vars

C29_Witness ==
    /\ pc = "phoneLogin"
    /\ count = 0
    /\ last.loop = "verification"
    /\ Outcome(last.raw) = "Success"

\* C30: every request loop begins with a count of 0, whatever the loop or
\* the login attempt before it counted; while a loop runs its count is the
\* number of responses it handled itself, and it raises on its own fifth.
C30_RetryCounterPerLoop ==
    /\ pc \in LoopPcs => count = answered
    /\ (pc = "raised" /\ raised = "HttpRequestFailedOn5Error")
          => (last.countAfter = MAX_RETRIES /\ answered = MAX_RETRIES)

C30_Witness ==
    /\ pc = "tokenTest"
    /\ count = 0
    /\ last.loop = "emailLogin"
    /\ last.countBefore = MAX_RETRIES - 1
    /\ last.to = "success"

\* the cause of the failure just handled: what the transport reported,
\* the text or HTTP status of an answer without a JSON body, or the message
\* of a JSON body
LastCause ==
    CASE last.raw.kind # "answered" -> last.raw.kind
      [] last.raw.body = "malformed" -> "text"
      [] OTHER -> "msg"

\* C31: the error a request loop raises on its 5th failure carries the
\* cause of that failure.
C31_RaisedErrorCarriesLastCause ==
    raised = "HttpRequestFailedOn5Error" => cause = LastCause

\* C32: main deletes the stored token only after the identity lookup was
\* answered, with an ok status, by a JSON body whose code is not the
\* success sentinel; never after a network error, a timeout, an HTTP error
\* status or a body that is not JSON.
C32_TokenClearedOnlyOnRejection ==
    [][(pc = "tokenTest" /\ origin = "stored" /\ configToken' # configToken)
         => (last'.raw.kind = "answered" /\ last'.raw.ok
               /\ last'.raw.body = "code0")]_vars

\* C33: main reaches new WssClient only by a tokenTest that returned a
\* successful identity, and the client it makes has that identity's userId
\* and token; no client exists before.
C33_SessionUsesValidatedIdentity ==
    [][/\ (pc' = "session" /\ pc # "session")
             => (pc = "tokenTest" /\ last'.loop = "tokenTest"
                   /\ Outcome(last'.raw) = "Success"
                   /\ identity'.userId \in UserIds
                   /\ identity'.token = testing)
       /\ pc' = "connect" => (client' = identity' /\ identity' # NoIdentity)
       /\ pc' # "connect" => client' = NoIdentity]_vars

C33_Witness ==
    /\ pc = "connect"
    /\ origin = "login"
    /\ identity = [userId |-> "u2", token |-> "T"]
    /\ client = identity

\* C34: where main makes the WssClient, account.token of the configuration
\* is the token of the validated identity, which is the token the client
\* is given.
C34_ConfigTokenIsSessionToken ==
    /\ pc \in {"session", "connect"}
          => (identity.token \in Tokens \cup {"stored"}
                /\ configToken = identity.token)
    /\ pc = "connect" => client.token = configToken

C34_Witness ==
    /\ pc = "connect"
    /\ origin = "relogin"
    /\ configToken = "U"
    /\ client.token = "U"

StoredIds == account.device # NoValue /\ account.platform # NoValue

\* both values are in the configuration file
PersistedIds == configFile.device # NoValue /\ configFile.platform # NoValue

\* a call of getIdAndPlatform or of tryLogin
IdsCall == GetIdAndPlatform \/ TryLogin

\* C24: once the device id and the platform are stored, every call of
\* getIdAndPlatform and every login attempt returns the stored pair, stores
\* nothing and does not save the configuration; once they are in the file,
\* the file keeps them and every later start reads them back; a call that
\* finds one of the two stored leaves that one as it is.
C24_IdsImmutableOncePersisted ==
    [][/\ (StoredIds /\ IdsCall)
             => /\ ids' = [deviceId |-> account.device,
                           platform |-> account.platform, saved |-> FALSE]
                /\ account' = account
                /\ configFile' = configFile
       /\ PersistedIds => (configFile' = configFile /\ account' = configFile)
       /\ IdsCall
             => /\ account.device # NoValue
                      => account'.device = account.device
                /\ account.platform # NoValue
                      => account'.platform = account.platform]_vars

C24_Witness ==
    /\ configFile.device \in DeviceIds
    /\ PersistedIds
    /\ account = configFile
    /\ ids = [deviceId |-> configFile.device,
              platform |-> configFile.platform, saved |-> FALSE]

(***************************************************************************)
(* Claims about the decoder.                                               *)
(***************************************************************************)
\* the dispatch table as section 4.4 gives it
TableNames ==
    {"heartbeat_ack", "heartbeat", "pong", "push_message", "draft_input",
     "file_send_message", "edit_message"}

ExpectedSchema(name) ==
    CASE name \in {"heartbeat_ack", "heartbeat", "pong"} -> "HeartbeatAckInfo"
      [] name = "push_message" -> "PushMessage"
      [] name = "draft_input" -> "DraftInput"
      [] name = "file_send_message" -> "FileSendMessage"
      [] name = "edit_message" -> "EditMessage"
      [] OTHER -> "none"

\* a correctly encoded frame of a table command: it carries the command in
\* the base envelope every schema shares (so the probe schema reads it) and
\* the schema of its command accepts its bytes
CorrectlyEncoded(f) ==
    /\ f.cmd # NoCmd
    /\ toLowerCase(f.cmd) \in TableNames
    /\ "HeartbeatAckInfo" \in f.decodable
    /\ ExpectedSchema(toLowerCase(f.cmd)) \in f.decodable

\* C9: decodeMessage never raises, whatever the bytes and the command name.
C9_DecodeNeverRaises ==
    decoded # Thrown

\* C10: a correctly encoded frame of a table command, its name in any case,
\* is decoded with the schema the table gives and comes back as that
\* variant.
C10_TableCommandUsesItsSchema ==
    (decoded # NotDecoded /\ CorrectlyEncoded(frame))
        => (decoded.kind = "object"
              /\ decoded.type = ExpectedSchema(toLowerCase(frame.cmd))
              /\ decoded.cmd = frame.cmd)

C10_Witness ==
    /\ decoded # NotDecoded
    /\ CorrectlyEncoded(frame)
    /\ frame.cmd = "EDIT_MESSAGE"
    /\ frame.decodable = Schemas
    /\ decoded.type = "EditMessage"

\* the command name the probe of section 4.4 yields for a frame
ProbedCmd(f) ==
    IF "HeartbeatAckInfo" \in f.decodable THEN f.cmd ELSE NoCmd

OutsideTable(f) ==
    \/ ProbedCmd(f) = NoCmd
    \/ toLowerCase(ProbedCmd(f)) \notin TableNames

\* the schema section 4.4 dispatches a frame to
ChosenSchema(f) ==
    IF OutsideTable(f)
    THEN "HeartbeatAckInfo"
    ELSE ExpectedSchema(toLowerCase(ProbedCmd(f)))

\* C11: a frame whose command is none of the seven table entries, or whose
\* probe yields no command, is decoded with the generic envelope schema
\* (HeartbeatAckInfo) and comes back as that schema's result; nothing is
\* raised.
C11_OutsideTableUsesGenericEnvelope ==
    (decoded # NotDecoded /\ OutsideTable(frame))
        => /\ decoded # Thrown
           /\ "HeartbeatAckInfo" \in frame.decodable
                  => (decoded.kind = "object"
                        /\ decoded.type = "HeartbeatAckInfo")

\* C12: when the chosen schema does not decode the frame, the result is the
\* JSON parse of the frame's text if the text is JSON, and otherwise the
\* bytes that arrived, as bytes.
C12_FallbackJsonThenRawBytes ==
    (decoded # NotDecoded /\ ChosenSchema(frame) \notin frame.decodable)
        => IF frame.json \in {"plain", "ack"}
           THEN decoded.kind = "json"
           ELSE decoded.kind = "raw"

(***************************************************************************)
(* Specifications.                                                         *)
(***************************************************************************)
LoginIdle ==
    /\ LoginInit
    /\ configToken = "none"

Init == SessionInit /\ DecodeIdle /\ LoginIdle /\ DeviceIdle

Next == SessionNext

Spec == Init /\ [][Next]_vars

\* a socket on its way down emits its close event
SocketCloseDue(i) ==
    /\ i \in DOMAIN sockets
    /\ sockets[i].readyState = "CLOSING"
    /\ SocketClose(i)

\* timers fire and sockets emit their events; the owner is under no
\* obligation to call destroy()
Fairness ==
    /\ WF_vars(ReconnectTimerFire)
    /\ WF_vars(LoadProtoDone \/ LoadProtoFail)
    /\ \A i \in 1..MaxSockets : WF_vars(SocketCloseDue(i))

SpecLive == Spec /\ Fairness

InitDecode ==
    /\ SessionInit
    /\ LoginIdle
    /\ DeviceIdle
    /\ frame \in Frames
    /\ decoded = NotDecoded

NextDecode == DecodeNext

SpecDecode == InitDecode /\ [][NextDecode]_vars

InitLogin == SessionInit /\ DecodeIdle /\ LoginInit /\ DeviceIdle

NextLogin == LoginNext

SpecLogin == InitLogin /\ [][NextLogin]_vars

InitDevice == SessionInit /\ DecodeIdle /\ LoginIdle /\ DeviceInit

NextDevice == DeviceNext

SpecDevice == InitDevice /\ [][NextDevice]_vars

=============================================================================
